---- MODULE Spec2Model ----
(***************************************************************************)
(* MCPClient (mcp-client-browser): the multi-connection tool orchestration *)
(* loop.  A text is a sequence of tokens; a message is an object on a heap *)
(* (JavaScript arrays hold references, and [...array] copies references).  *)
(***************************************************************************)
EXTENDS Integers, Sequences, FiniteSets, TLC

\* ------------------------------------------------------------------ bounds
NumConns == 2
MaxModelCalls == 2
ChunkLen == 8
MaxEmptyChunks == 1

\* ------------------------------------------------------------------ tokens
TU == "<tool_use>"
TUEnd == "</tool_use>"
NM == "<name>"
NMEnd == "</name>"
AR == "<arguments>"
AREnd == "</arguments>"
WhiteSpace == {" ", "\n"}

IsWS(t) == t \in WhiteSpace

\* String.prototype.trim on a token sequence
Trim(s) ==
    LET keep == {i \in 1..Len(s) : ~IsWS(s[i])}
    IN IF keep = {} THEN <<>>
       ELSE LET lo == CHOOSE i \in keep : \A j \in keep : i <= j
                hi == CHOOSE i \in keep : \A j \in keep : j <= i
            IN SubSeq(s, lo, hi)

\* \s* (greedy) followed by a non-space token: the position after the spaces
SkipWS(text, i) ==
    CHOOSE j \in i..(Len(text) + 1) :
        /\ \A k \in i..(j - 1) : IsWS(text[k])
        /\ (j = Len(text) + 1 \/ ~IsWS(text[j]))

At(text, i, tok) == i >= 1 /\ i <= Len(text) /\ text[i] = tok

\* JSON.parse on the trimmed arguments text: the texts that parse, and their values
JsonTexts == {"{\"a\":1}", "{}"}

\* (mutant) the arguments text is never parsed
JsonKeepRaw(argsStr) == [json |-> FALSE, value |-> argsStr]

JsonParse(argsStr) ==
    IF Len(argsStr) = 1 /\ argsStr[1] \in JsonTexts
    THEN [json |-> TRUE, value |-> <<"object">> \o
             (IF argsStr[1] = "{}" THEN <<>> ELSE <<"a", "1">>)]
    ELSE [json |-> FALSE, value |-> argsStr]

ToolUse(name, argsStr) == [name |-> name, arguments |-> JsonParse(argsStr)]

\* pattern1 anchored at position i: the (j, k, e) of the lazy match, j and k the
\* closing </name> and </arguments>, e the closing </tool_use>
StrictCandidates(text, i) ==
    IF ~At(text, i, TU) THEN {}
    ELSE LET n == SkipWS(text, i + 1)
         IN IF ~At(text, n, NM) THEN {}
            ELSE LET rest == (n + 1)..Len(text)
                     js == {j \in rest : text[j] = NMEnd /\ At(text, SkipWS(text, j + 1), AR)}
                     ks(j) == {k \in rest : k > SkipWS(text, j + 1) /\ text[k] = AREnd}
                     es(k) == {e \in rest : e = SkipWS(text, k + 1) /\ text[e] = TUEnd}
                 IN UNION {UNION {{<<j, k, e>> : e \in es(k)} : k \in ks(j)} : j \in js}

LexLess(a, b) == a[1] < b[1] \/ (a[1] = b[1] /\ a[2] <= b[2])

RECURSIVE StrictMatchesFrom(_, _)
StrictMatchesFrom(text, from) ==
    LET starts == {i \in from..Len(text) : StrictCandidates(text, i) # {}}
    IN IF starts = {} THEN <<>>
       ELSE LET i == CHOOSE x \in starts : \A y \in starts : x <= y
                n == SkipWS(text, i + 1)
                cs == StrictCandidates(text, i)
                c == CHOOSE x \in cs : \A y \in cs : LexLess(x, y)
                a == SkipWS(text, c[1] + 1)
            IN <<[name |-> SubSeq(text, n + 1, c[1] - 1),
                  args |-> SubSeq(text, a + 1, c[2] - 1)]>>
               \o StrictMatchesFrom(text, c[3] + 1)

\* [...text.matchAll(pattern1)] ; pattern2 differs only in writing \s as [\s\n]
Pattern1Matches(text) == StrictMatchesFrom(text, 1)
Pattern2Matches(text) == StrictMatchesFrom(text, 1)

\* [...text.matchAll(/<open>(.*?)<\/close>/gs)].map(m => m[1].trim())
RECURSIVE SpanMatchesFrom(_, _, _, _)
SpanMatchesFrom(text, open, close, from) ==
    LET starts == {i \in from..Len(text) :
                     text[i] = open /\ \E j \in (i + 1)..Len(text) : text[j] = close}
    IN IF starts = {} THEN <<>>
       ELSE LET i == CHOOSE x \in starts : \A y \in starts : x <= y
                ends == {j \in (i + 1)..Len(text) : text[j] = close}
                j == CHOOSE x \in ends : \A y \in ends : x <= y
            IN <<Trim(SubSeq(text, i + 1, j - 1))>>
               \o SpanMatchesFrom(text, open, close, j + 1)

\* (mutant) no lenient fallback: only the strict matches are processed
ExtractStrictOnly(text) ==
    LET matches == Pattern1Matches(text)
    IN [i \in 1..Len(matches) |->
           ToolUse(Trim(matches[i].name), Trim(matches[i].args))]

ExtractToolUses(text) ==
    LET m1 == Pattern1Matches(text)
        matches == IF Len(m1) = 0 THEN Pattern2Matches(text) ELSE m1
        nameMatches == SpanMatchesFrom(text, NM, NMEnd, 1)
        argsMatches == SpanMatchesFrom(text, AR, AREnd, 1)
    IN IF Len(matches) = 0 /\ Len(nameMatches) > 0
          /\ Len(nameMatches) = Len(argsMatches)
       THEN [i \in 1..Len(nameMatches) |-> ToolUse(nameMatches[i], argsMatches[i])]
       ELSE [i \in 1..Len(matches) |->
                ToolUse(Trim(matches[i].name), Trim(matches[i].args))]


\* ------------------------------------------------------------- environment
Conns == 1..NumConns
\* the single task of a caller that awaits each call; slot 2 is a second task
MaxSlots == 2
Slots == 1..MaxSlots

\* what each configured service advertises: tool "dup" on every service, and
\* one tool of its own
OwnToolNames == <<"t1", "t2", "t3", "t4">>
ToolsOf(c) == << <<"dup">>, <<OwnToolNames[c]>> >>
ServiceName(c) == <<"svc", OwnToolNames[c]>>

Queries == { <<"q1">> }
UserSystemPrompts == { <<"sp">> }
Modes == {"buffered", "stream"}

\* completion texts the model may answer with
\* (an empty text arises from a null content), one without tool-call syntax,
\* one with a request no service provides followed by one for tool "dup", and
\* one whose only request has a blank name
RPlain == <<"hi">>
RTwoCalls == <<TU, NM, "zz", NMEnd, AR, "bad", AREnd, TUEnd, "\n",
               TU, NM, "dup", NMEnd, AR, "{\"a\":1}", AREnd, TUEnd>>
RNameless == <<TU, NM, " ", NMEnd, AR, "{}", AREnd, TUEnd>>
ResponseTexts == {RPlain, RTwoCalls, RNameless}
\* choices[0].message.content may be null
NullContent == <<"#null">>
Completions == ResponseTexts \cup {NullContent}

\* what callTool may resolve with; "throw" is a rejected call
ResText == [kind |-> "array", items |-> << <<"ok">> >>, raw |-> <<"{content:[{text:ok}]}">>]
ResEmpty == [kind |-> "array", items |-> <<>>, raw |-> <<"{content:[]}">>]
ResNoContent == [kind |-> "none", items |-> <<>>, raw |-> <<"{isError:true}">>]
ResScalar == [kind |-> "scalar", items |-> <<>>, raw |-> <<"{content:ok}">>]
ToolResults == {ResText, ResNoContent}
AllToolResults == {ResText, ResEmpty, ResNoContent, ResScalar}

\* ---------------------------------------------------------------- messages
StringContent(text) == [type |-> "string", text |-> text]
PartsContent(parts) == [type |-> "parts", parts |-> parts]
Message(role, content) == [role |-> role, content |-> content]

\* the JavaScript value undefined, and its conversion in a string concatenation
Undefined == <<"#undefined">>
StrConcat(a, b) == (IF a = Undefined THEN <<"undefined">> ELSE a) \o b

\* JSON.stringify of a string value / of undefined
StringifyText(v) == IF v = Undefined THEN Undefined ELSE <<"\"">> \o v \o <<"\"">>

\* JSON.stringify(result.content && Array.isArray(result.content) ?
\*                result.content[0]?.text : result)
SerializeResult(res) ==
    IF res.kind = "array"
    THEN StringifyText(IF Len(res.items) > 0 THEN res.items[1] ELSE Undefined)
    ELSE res.raw

ResultLabel(toolName) == <<"Here is the result of tool call: ">> \o toolName

\* the result message pushed by processQuery ...
BufferedResultMessage(toolName, res) ==
    Message("user", PartsContent(<<ResultLabel(toolName),
                                   StrConcat(SerializeResult(res), <<"\n\n">>)>>))
\* ... and by processQueryStream
StreamResultMessage(toolName, res) ==
    Message("user", PartsContent(<<ResultLabel(toolName), SerializeResult(res)>>))

ResultMessage(m, toolName, res) ==
    IF m = "buffered" THEN BufferedResultMessage(toolName, res)
    ELSE StreamResultMessage(toolName, res)

\* `The tool call to ${toolName} failed with error: ${error}`
ErrorText(toolName, err) ==
    <<"The tool call to ">> \o toolName \o <<" failed with error: ">> \o err
ErrorMessage(toolName, err) == Message("user", StringContent(ErrorText(toolName, err)))

NoServiceError(toolName) == <<"Error: No service provides tool: ">> \o toolName
CallToolError == <<"Error: callTool rejected">>


\* listTools: the per-connection lists, tagged and flattened; ok[c] says whether
\* connection c's listing succeeded
TaggedTools(c) ==
    [i \in 1..Len(ToolsOf(c)) |-> [name |-> ToolsOf(c)[i], serviceSource |-> ServiceName(c)]]

\* (mutant) a failed listing falls back on the tools the service advertises
ToolsArrayNoCatch(c, ok) == TaggedTools(c)

ToolsArray(c, ok) == IF ok[c] THEN TaggedTools(c) ELSE <<>>

RECURSIVE FlatFrom(_, _)
FlatFrom(c, ok) ==
    IF c > NumConns THEN <<>> ELSE ToolsArray(c, ok) \o FlatFrom(c + 1, ok)

\* (mutant) a tool name already in the catalog is not added again
RECURSIVE DropSeen(_, _)
DropSeen(tools, seen) ==
    IF tools = <<>> THEN <<>>
    ELSE IF Head(tools).name \in seen THEN DropSeen(Tail(tools), seen)
         ELSE <<Head(tools)>> \o DropSeen(Tail(tools), seen \cup {Head(tools).name})
ListToolsDeduped(ok) == DropSeen(FlatFrom(1, ok), {})

\* (mutant) the catalog is what the services advertise, not what they answer now
ListToolsAdvertised(ok) == FlatFrom(1, [c \in Conns |-> TRUE])

ListTools(ok) == FlatFrom(1, ok)

\* BuildSystemPrompt(userSystemPrompt, tools): a rendering of both
RECURSIVE RenderTools(_)
RenderTools(tools) ==
    IF tools = <<>> THEN <<>>
    ELSE Head(tools).name \o <<"@">> \o Head(tools).serviceSource \o RenderTools(Tail(tools))

BuildSystemPrompt(userSystemPrompt, tools) ==
    <<"[prompt]">> \o userSystemPrompt \o <<"[tools]">> \o RenderTools(tools)

\* response.tools.some(tool => tool.name === toolName)
HasTool(c, toolName) == \E i \in 1..Len(ToolsOf(c)) : ToolsOf(c)[i] = toolName

\* JSON.stringify(message), as handed to onChunk inside a notification
JsonOfContent(content) ==
    IF content.type = "string" THEN StringifyText(content.text)
    ELSE <<"[{text:">> \o StringifyText(content.parts[1]) \o <<"},{">>
         \o (IF content.parts[2] = Undefined THEN <<>> ELSE <<"text:">> \o content.parts[2])
         \o <<"}]">>
JsonOfMessage(msg) == <<"{role:", msg.role, ",content:">> \o JsonOfContent(msg.content) \o <<"}">>

\* "\n\n[fence]json\n" + JSON.stringify(message) + "\n[fence]\n\n"
Notification(msg) == <<"[json]">> \o JsonOfMessage(msg) \o <<"[/json]">>

\* -------------------------------------------------------------------- state
VARIABLES
    openAI,         \* this.openAI is set (base address and credential were given)
    connected,      \* per connection: the SDK client holds a live transport
    connectPc,      \* "idle"; "pending" while connect() awaits Promise.all; "settled"
    attempt,        \* per connection: "none", "pending", "ok", "failed" of the last connect()
    connectResult,  \* what the last connect() call settled with
    chatHistory,    \* this.chatHistory: references into the heap
    heap,           \* the message objects
    round,          \* per task: the locals of a processQuery / processQueryStream call
    modelCalls,     \* completions answered so far
    returned,       \* the array getChatHistory handed to the caller: references
    extraction      \* a direct call of extractToolUses: its text and what it returned

vars == <<openAI, connected, connectPc, attempt, connectResult, chatHistory, heap,
          round, modelCalls, returned, extraction>>

IdleRound ==
    [pc |-> "idle", mode |-> "buffered", userSystemPrompt |-> <<>>, query |-> <<>>,
     useHistory |-> FALSE, tools |-> <<>>, systemPrompt |-> <<>>, messages |-> <<>>, twin |-> <<>>, toolUseList |-> <<>>,
     idx |-> 0, connIdx |-> 0, calls |-> 0, currentAssistantMessage |-> <<>>,
     stream |-> <<>>, fullResponse |-> <<>>, result |-> <<>>, error |-> "none",
     owner |-> 0, toolCalls |-> 0, emitted |-> <<>>, delivered |-> 0]

Settled == {"returned", "thrown"}

\* the messages a list of references denotes
Contents(h, list) == [i \in 1..Len(list) |-> h[list[i]]]

\* ----------------------------------------------------- heap canonical form
\* Objects no list refers to are dropped and the rest renumbered in order of
\* first reference, so that equal object graphs are equal states.
RECURSIVE AllRefs(_, _)
AllRefs(rd, s) == IF s > MaxSlots THEN <<>> ELSE rd[s].messages \o AllRefs(rd, s + 1)

RECURSIVE Dedupe(_, _)
Dedupe(seq, seen) ==
    IF seq = <<>> THEN <<>>
    ELSE IF Head(seq) \in seen THEN Dedupe(Tail(seq), seen)
         ELSE <<Head(seq)>> \o Dedupe(Tail(seq), seen \cup {Head(seq)})

Canon(h, ch, rd, ret) ==
    LET order == Dedupe(ch \o AllRefs(rd, 1) \o ret, {})
        new(id) == CHOOSE i \in 1..Len(order) : order[i] = id
        ren(list) == [i \in 1..Len(list) |-> new(list[i])]
    IN [heap |-> [i \in 1..Len(order) |-> h[order[i]]],
        chatHistory |-> ren(ch),
        round |-> [s \in Slots |-> [rd[s] EXCEPT !.messages = ren(rd[s].messages)]],
        returned |-> ren(ret)]

\* the next state's heap and lists, in canonical form
StoreCanon(c) ==
    /\ heap' = c.heap
    /\ chatHistory' = c.chatHistory
    /\ round' = c.round
    /\ returned' = c.returned

Store(s, h, ch, r) == StoreCanon(Canon(h, ch, [round EXCEPT ![s] = r], returned))

StoreState(s, st) == Store(s, st.heap, st.chatHistory, st.r)

NoExtraction == [input |-> <<>>, toolUses |-> <<>>, done |-> FALSE]

Init ==
    /\ extraction = NoExtraction
    /\ openAI \in BOOLEAN
    /\ connected = [c \in Conns |-> FALSE]
    /\ connectPc = "idle"
    /\ attempt = [c \in Conns |-> "none"]
    /\ connectResult = [status |-> "none", flags |-> <<>>]
    /\ chatHistory = <<>>
    /\ heap = <<>>
    /\ round = [s \in Slots |-> IdleRound]
    /\ modelCalls = 0
    /\ returned = <<>>

\* ------------------------------------------------------------------ connect
\* connect(): one attempt per configured connection, started together
Connect ==
    /\ connectPc = "idle"
    /\ connectPc' = "pending"
    /\ attempt' = [c \in Conns |-> "pending"]
    /\ connectResult' = [status |-> "none", flags |-> <<>>]
    /\ UNCHANGED <<extraction, openAI, connected, chatHistory, heap, round, modelCalls, returned>>

\* await conn.client.connect(transport) settles: return true / catch, return false
ConnectAttemptDone(c, ok) ==
    /\ connectPc = "pending"
    /\ attempt[c] = "pending"
    /\ attempt' = [attempt EXCEPT ![c] = IF ok THEN "ok" ELSE "failed"]
    /\ connected' = [connected EXCEPT ![c] = ok]
    /\ UNCHANGED <<extraction, openAI, connectPc, connectResult, chatHistory, heap, round,
                   modelCalls, returned>>

\* Promise.all has every result
AllSettled(att) == \A c \in Conns : att[c] \in {"ok", "failed"}

\* (mutant) a bare Promise.all: one failed attempt rejects the whole call
ConnectOutcomeFailFast(att) ==
    IF \A c \in Conns : att[c] = "ok"
    THEN [status |-> "resolved", flags |-> [c \in Conns |-> TRUE]]
    ELSE [status |-> "rejected", flags |-> <<>>]

\* results.some(result => result) decides between return results and throw
ConnectOutcome(att) ==
    IF \E c \in Conns : att[c] = "ok"
    THEN [status |-> "resolved", flags |-> [c \in Conns |-> att[c] = "ok"]]
    ELSE [status |-> "rejected", flags |-> <<>>]

ConnectSettle ==
    /\ connectPc = "pending"
    /\ AllSettled(attempt)
    /\ connectPc' = "settled"
    /\ connectResult' = ConnectOutcome(attempt)
    /\ UNCHANGED <<extraction, openAI, connected, attempt, chatHistory, heap, round,
                   modelCalls, returned>>

\* the caller's await of connect() resumes with the flags or the error
ConnectResume ==
    /\ connectPc = "settled"
    /\ connectPc' = "idle"
    /\ attempt' = [c \in Conns |-> "none"]
    /\ connectResult' = [status |-> "none", flags |-> <<>>]
    /\ UNCHANGED <<extraction, openAI, connected, chatHistory, heap, round, modelCalls, returned>>

\* ------------------------------------------------------------------ history
ClearChatHistory ==
    /\ StoreCanon(Canon(heap, <<>>, round, returned))
    /\ UNCHANGED <<extraction, openAI, connected, connectPc, attempt, connectResult,
                   modelCalls>>

\* getChatHistory(): return [...this.chatHistory], a new array of the same objects
GetChatHistory ==
    /\ StoreCanon(Canon(heap, chatHistory, round, chatHistory))
    /\ UNCHANGED <<extraction, openAI, connected, connectPc, attempt, connectResult,
                   modelCalls>>

\* the caller lets go of the array it was handed
Release ==
    /\ returned # <<>>
    /\ StoreCanon(Canon(heap, chatHistory, round, <<>>))
    /\ UNCHANGED <<extraction, openAI, connected, connectPc, attempt, connectResult,
                   modelCalls>>

\* what the caller does with the array it was handed: it writes a field of a
\* message in it, ...
CallerEdit == <<"edited">>
CallerSetsContent(i) ==
    /\ i \in 1..Len(returned)
    /\ heap[returned[i]].content # StringContent(CallerEdit)
    /\ StoreCanon(Canon([heap EXCEPT ![returned[i]].content = StringContent(CallerEdit)],
                        chatHistory, round, returned))
    /\ UNCHANGED <<extraction, openAI, connected, connectPc, attempt, connectResult,
                   modelCalls>>

CallerSetsRole(i) ==
    /\ i \in 1..Len(returned)
    /\ heap[returned[i]].role # "user"
    /\ StoreCanon(Canon([heap EXCEPT ![returned[i]].role = "user"],
                        chatHistory, round, returned))
    /\ UNCHANGED <<extraction, openAI, connected, connectPc, attempt, connectResult,
                   modelCalls>>

\* ... pushes a message of its own onto the array, ...
CallerMessage == Message("user", StringContent(<<"pushed">>))
CallerPushes ==
    /\ returned # <<>>
    /\ \A i \in 1..Len(returned) : heap[returned[i]] # CallerMessage
    /\ StoreCanon(Canon(Append(heap, CallerMessage), chatHistory, round,
                        Append(returned, Len(heap) + 1)))
    /\ UNCHANGED <<extraction, openAI, connected, connectPc, attempt, connectResult,
                   modelCalls>>

\* ... or removes the array's first element
CallerShifts ==
    /\ Len(returned) > 1
    /\ StoreCanon(Canon(heap, chatHistory, round, Tail(returned)))
    /\ UNCHANGED <<extraction, openAI, connected, connectPc, attempt, connectResult,
                   modelCalls>>

CallerWrites ==
    \/ \E i \in 1..Len(returned) : CallerSetsContent(i)
    \/ \E i \in 1..Len(returned) : CallerSetsRole(i)
    \/ CallerPushes
    \/ CallerShifts

\* ------------------------------------------------------------------ cleanup
\* cleanup(): a close is issued on every connection, each in its own try/catch
Cleanup ==
    /\ connectPc = "idle"
    /\ connectPc' = "closing"
    /\ attempt' = [c \in Conns |-> "pending"]
    /\ UNCHANGED <<extraction, openAI, connected, connectResult, chatHistory, heap,
                   round, modelCalls, returned>>

\* await conn.client.close() settles: return true (the transport is gone) /
\* catch, return false
CloseAttemptDone(c, ok) ==
    /\ connectPc = "closing"
    /\ attempt[c] = "pending"
    /\ attempt' = [attempt EXCEPT ![c] = IF ok THEN "ok" ELSE "failed"]
    /\ connected' = [connected EXCEPT ![c] = connected[c] /\ ~ok]
    /\ UNCHANGED <<extraction, openAI, connectPc, connectResult, chatHistory, heap, round,
                   modelCalls, returned>>

\* (mutant) a bare Promise.all over closes that are not caught: a failed close
\* rejects cleanup before the history and the credentials are dropped
CleanupSettleFailFast ==
    /\ connectPc = "closing"
    /\ AllSettled(attempt)
    /\ connectPc' = "idle"
    /\ attempt' = [c \in Conns |-> "none"]
    /\ IF \A c \in Conns : attempt[c] = "ok"
       THEN openAI' = FALSE /\ StoreCanon(Canon(heap, <<>>, round, returned))
       ELSE UNCHANGED <<openAI, heap, chatHistory, round, returned>>
    /\ UNCHANGED <<extraction, connected, connectResult, modelCalls>>

\* Promise.all of the closes has settled; then this.chatHistory = [] and
\* this.openAI = null
CleanupSettle ==
    /\ connectPc = "closing"
    /\ AllSettled(attempt)
    /\ connectPc' = "idle"
    /\ attempt' = [c \in Conns |-> "none"]
    /\ openAI' = FALSE
    /\ StoreCanon(Canon(heap, <<>>, round, returned))
    /\ UNCHANGED <<extraction, connected, connectResult, modelCalls>>

\* -------------------------------------------------------------------- round
\* onChunk(text) in processQueryStream: emitted is the list of the texts the
\* callback of this call was invoked with, each with the number of the model
\* call under way and whether it is a stream fragment or a notification
FragmentsOfCall(log, k) ==
    LET test(e) == e.kind = "fragment" /\ e.call = k IN SelectSeq(log, test)
NotificationsOfCall(log, k) ==
    LET test(e) == e.kind = "notification" /\ e.call = k IN SelectSeq(log, test)

Emit(r, kind, text) ==
    IF r.mode = "stream"
    THEN [r EXCEPT !.emitted = Append(@, [kind |-> kind, call |-> r.calls, text |-> text])]
    ELSE r

OtherMode(m) == IF m = "buffered" THEN "stream" ELSE "buffered"

\* messages.push(msg) on the working list of r; the twin list holds what the
\* other variant pushes at the same place
Push(st, msg, twinMsg) ==
    [st EXCEPT !.heap = Append(@, msg),
               !.r = [@ EXCEPT !.messages = Append(@, Len(st.heap) + 1),
                               !.twin = Append(@, twinMsg)]]

\* (mutant) the system message is prepended without looking at the first role
ComposeAlwaysUnshift(h, ch, useHist, systemPrompt, q) ==
    LET sys == Message("system", StringContent(systemPrompt))
        usr == Message("user", StringContent(q))
        n == Len(h)
    IN IF ~useHist \/ Len(ch) = 0
       THEN [heap |-> h \o <<sys, usr>>, messages |-> <<n + 1, n + 2>>]
       ELSE [heap |-> h \o <<sys, usr>>, messages |-> <<n + 1>> \o ch \o <<n + 2>>]

\* (mutant) the first message's content is left as the earlier round wrote it
ComposeKeepPrompt(h, ch, useHist, systemPrompt, q) ==
    LET sys == Message("system", StringContent(systemPrompt))
        usr == Message("user", StringContent(q))
        n == Len(h)
    IN IF ~useHist \/ Len(ch) = 0
       THEN [heap |-> h \o <<sys, usr>>, messages |-> <<n + 1, n + 2>>]
       ELSE [heap |-> h \o <<usr>>, messages |-> ch \o <<n + 1>>]

\* (mutant) a non-empty history is used whatever useHistory says
ComposeIgnoringFlag(h, ch, useHist, systemPrompt, q) ==
    LET sys == Message("system", StringContent(systemPrompt))
        usr == Message("user", StringContent(q))
        n == Len(h)
    IN IF Len(ch) = 0
       THEN [heap |-> h \o <<sys, usr>>, messages |-> <<n + 1, n + 2>>]
       ELSE [heap |-> [h EXCEPT ![ch[1]].content = StringContent(systemPrompt)] \o <<usr>>,
             messages |-> ch \o <<n + 1>>]

\* the working list of a round: a fresh pair, or the history's objects with a
\* refreshed or prepended system message, then the query
ComposeMessages(h, ch, useHist, systemPrompt, q) ==
    LET sys == Message("system", StringContent(systemPrompt))
        usr == Message("user", StringContent(q))
        n == Len(h)
    IN IF ~useHist \/ Len(ch) = 0
       THEN [heap |-> h \o <<sys, usr>>, messages |-> <<n + 1, n + 2>>]
       ELSE IF h[ch[1]].role = "system"
            THEN [heap |-> [h EXCEPT ![ch[1]].content = StringContent(systemPrompt)]
                           \o <<usr>>,
                  messages |-> ch \o <<n + 1>>]
            ELSE [heap |-> h \o <<sys, usr>>,
                  messages |-> <<n + 1>> \o ch \o <<n + 2>>]

\* (mutant) the credentials are not looked at: the round goes on to the listing
BeginRoundUnchecked(s, m, usp, q, h) ==
    /\ round[s].pc = "idle"
    /\ Store(s, heap, chatHistory,
             [IdleRound EXCEPT !.pc = "list", !.mode = m, !.userSystemPrompt = usp,
                               !.query = q, !.useHistory = h])
    /\ UNCHANGED <<extraction, openAI, connected, connectPc, attempt, connectResult, modelCalls>>

\* if (!this.openAI) throw ... ; ... await this.listTools()
BeginRound(s, m, usp, q, h) ==
    /\ round[s].pc = "idle"
    /\ IF ~openAI
       THEN Store(s, heap, chatHistory,
                  [IdleRound EXCEPT !.pc = "thrown", !.mode = m,
                                    !.error = "ConfigurationError"])
       ELSE Store(s, heap, chatHistory,
                  [IdleRound EXCEPT !.pc = "list", !.mode = m, !.userSystemPrompt = usp,
                                    !.query = q, !.useHistory = h])
    /\ UNCHANGED <<extraction, openAI, connected, connectPc, attempt, connectResult, modelCalls>>

ProcessQuery(s, usp, q, h) == BeginRound(s, "buffered", usp, q, h)

ProcessQueryStream(s, usp, q, h) == BeginRound(s, "stream", usp, q, h)

\* an error leaves the call: its frame is gone
Abandon(r, err) ==
    [IdleRound EXCEPT !.pc = "thrown", !.mode = r.mode, !.useHistory = r.useHistory,
                      !.error = err, !.calls = r.calls]

\* this.openAI.chat.completions.create(...): on a client whose credentials a
\* cleanup() has dropped meanwhile, the property read of null throws
RequestCompletion(r) == IF openAI THEN r ELSE Abandon(r, "TypeError")

\* listTools settles; the prompt is built and the working list composed; the
\* first completion is requested
ListToolsDone(s, ok) ==
    /\ round[s].pc = "list"
    /\ \A c \in Conns : ok[c] => connected[c]
    /\ LET r == round[s]
           tools == ListTools(ok)
           systemPrompt == BuildSystemPrompt(r.userSystemPrompt, tools)
           cm == ComposeMessages(heap, chatHistory, r.useHistory, systemPrompt, r.query)
       IN Store(s, cm.heap, chatHistory,
                RequestCompletion(
                    [r EXCEPT !.pc = "model", !.tools = tools, !.systemPrompt = systemPrompt,
                              !.messages = cm.messages,
                              !.twin = Contents(cm.heap, cm.messages), !.calls = 1]))
    /\ UNCHANGED <<extraction, openAI, connected, connectPc, attempt, connectResult,
                   modelCalls>>

\* (mutant) the loop does not skip a request without a name
NextAny(uses, from) == IF from <= Len(uses) THEN from ELSE 0

\* the first request with a name at or after position from; 0 if there is none
NextNamed(uses, from) ==
    LET c == {i \in from..Len(uses) : uses[i].name # <<>>}
    IN IF c = {} THEN 0 ELSE CHOOSE i \in c : \A j \in c : i <= j

\* (mutant) a ceiling of one completion with tool calls: after the loop the
\* round returns what it has
AdvanceWithCeiling(r, from) ==
    LET i == NextNamed(r.toolUseList, from)
    IN IF i = 0
       THEN [r EXCEPT !.pc = "returned", !.toolUseList = <<>>,
                      !.idx = 0, !.connIdx = 0, !.owner = 0,
                      !.result = r.fullResponse, !.currentAssistantMessage = <<>>]
       ELSE [r EXCEPT !.pc = "find", !.idx = i, !.connIdx = 1, !.owner = 0]

\* the for loop runs on to its next await, or falls out into the next
\* completion request
Advance(r, from) ==
    LET i == NextNamed(r.toolUseList, from)
    IN IF i = 0
       THEN RequestCompletion([r EXCEPT !.pc = "model", !.calls = @ + 1,
                                        !.toolUseList = <<>>,
                                        !.idx = 0, !.connIdx = 0, !.owner = 0,
                                        !.currentAssistantMessage = <<>>])
       ELSE [r EXCEPT !.pc = "find", !.idx = i, !.connIdx = 1, !.owner = 0]

\* (mutant) the commit does not look at useHistory
CommitAlways(r, ch) == r.messages

\* (mutant) the commit gives way to a history that is not the one the working
\* list was built on
CommitUnlessChanged(r, ch) ==
    IF r.useHistory /\ Len(ch) <= Len(r.messages) /\ SubSeq(r.messages, 1, Len(ch)) = ch
    THEN r.messages
    ELSE ch

\* this.chatHistory = messages, under useHistory
CommitHistory(r, ch) == IF r.useHistory THEN r.messages ELSE ch

\* (mutant) the text is appended to the error trail instead of replacing it
ReturnValueWithTrail(r, text) == r.fullResponse \o text

\* what the call returns: assistantMessage, or fullResponse = currentAssistantMessage
ReturnValue(r, text) == text

\* (mutant) a response that holds tool calls is not kept in the working list
AfterResponseDropsCallText(st, text) ==
    LET asst == Message("assistant", StringContent(text))
        st1 == Push(st, asst, asst)
        uses == ExtractToolUses(text)
    IN IF Len(uses) = 0
       THEN [st1 EXCEPT !.chatHistory = CommitHistory(st1.r, st.chatHistory),
                        !.r = [@ EXCEPT !.pc = "returned",
                                        !.result = ReturnValue(st1.r, text),
                                        !.fullResponse = <<>>,
                                        !.currentAssistantMessage = <<>>]]
       ELSE [st EXCEPT !.r = Advance([@ EXCEPT !.toolUseList = uses], 1)]

\* from the complete response text to the return or to the first tool await
AfterResponse(st, text) ==
    LET asst == Message("assistant", StringContent(text))
        st1 == Push(st, asst, asst)
        uses == ExtractToolUses(text)
    IN IF Len(uses) = 0
       THEN [st1 EXCEPT !.chatHistory = CommitHistory(st1.r, st.chatHistory),
                        !.r = [@ EXCEPT !.pc = "returned",
                                        !.result = ReturnValue(st1.r, text),
                                        !.fullResponse = <<>>,
                                        !.currentAssistantMessage = <<>>]]
       ELSE [st1 EXCEPT !.r = Advance([@ EXCEPT !.toolUseList = uses], 1)]

ThisState(s) == [heap |-> heap, chatHistory |-> chatHistory, r |-> round[s]]

\* completion.choices[0].message.content || ''
ContentOrEmpty(content) == IF content = NullContent THEN <<>> ELSE content

\* buffered: the completion resolves
ModelReply(s, content) ==
    /\ round[s].pc = "model"
    /\ round[s].mode = "buffered"
    /\ modelCalls < MaxModelCalls
    /\ modelCalls' = modelCalls + 1
    /\ StoreState(s, AfterResponse(ThisState(s), ContentOrEmpty(content)))
    /\ UNCHANGED <<extraction, openAI, connected, connectPc, attempt, connectResult>>

\* either variant: the completion request rejects; nothing catches it
ModelFail(s) ==
    /\ round[s].pc \in {"model", "stream"}
    /\ Store(s, heap, chatHistory, Abandon(round[s], "CompletionError"))
    /\ UNCHANGED <<extraction, openAI, connected, connectPc, attempt, connectResult,
                   modelCalls>>

\* streaming: the request resolves with a stream that will deliver text
StreamOpen(s, text) ==
    /\ round[s].pc = "model"
    /\ round[s].mode = "stream"
    /\ modelCalls < MaxModelCalls
    /\ modelCalls' = modelCalls + 1
    /\ Store(s, heap, chatHistory,
             [round[s] EXCEPT !.pc = "stream", !.stream = text,
                              !.currentAssistantMessage = <<>>])
    /\ UNCHANGED <<extraction, openAI, connected, connectPc, attempt, connectResult>>

\* the chunks without content the stream of this model call has delivered
EmptyChunks(r) == r.delivered - Len(FragmentsOfCall(r.emitted, r.calls))

\* one chunk of k tokens, the delivered-th of its stream (k = 0: a chunk
\* without content, skipped)
StreamChunk(s, k) ==
    /\ round[s].pc = "stream"
    /\ k \in {0, IF Len(round[s].stream) < ChunkLen THEN Len(round[s].stream) ELSE ChunkLen}
    /\ k = 0 => EmptyChunks(round[s]) < MaxEmptyChunks
    /\ LET content == SubSeq(round[s].stream, 1, k)
           r == [round[s] EXCEPT !.currentAssistantMessage = @ \o content,
                                 !.stream = SubSeq(@, k + 1, Len(@)),
                                 !.delivered = @ + 1]
       IN Store(s, heap, chatHistory,
                IF content # <<>> THEN Emit(r, "fragment", content) ELSE r)
    /\ UNCHANGED <<extraction, openAI, connected, connectPc, attempt, connectResult,
                   modelCalls>>

StreamEnd(s) ==
    /\ round[s].pc = "stream"
    /\ round[s].stream = <<>>
    /\ StoreState(s, AfterResponse([ThisState(s) EXCEPT !.r.delivered = 0],
                                   round[s].currentAssistantMessage))
    /\ UNCHANGED <<extraction, openAI, connected, connectPc, attempt, connectResult,
                   modelCalls>>

\* (mutant) no try/catch around the dispatch: the error leaves the round
ToolFailedFatal(st, err) ==
    [st EXCEPT !.r = [IdleRound EXCEPT !.pc = "thrown", !.mode = st.r.mode,
                                       !.useHistory = st.r.useHistory,
                                       !.error = "ToolError", !.calls = st.r.calls]]

\* (mutant) the catch block swallows the error: nothing is told to the model
ToolFailedSilent(st, err) == [st EXCEPT !.r = Advance(@, st.r.idx + 1)]

\* the catch block: the error message, in streaming the error trail, then on
ToolFailed(st, err) ==
    LET r == st.r
        toolName == r.toolUseList[r.idx].name
        msg == ErrorMessage(toolName, err)
        st1 == Push(st, msg, msg)
        trail == IF r.mode = "stream" THEN r.fullResponse \o Notification(msg)
                 ELSE r.fullResponse
    IN [st1 EXCEPT !.r = Advance(Emit([@ EXCEPT !.fullResponse = trail],
                                      "notification", Notification(msg)),
                                 r.idx + 1)]

\* (mutant) no try/catch inside the loop: a listing that fails ends the search
FindStepNoCatch(s, ok) ==
    /\ round[s].pc = "find"
    /\ ok => connected[round[s].connIdx]
    /\ LET r == round[s]
           c == r.connIdx
           toolUse == r.toolUseList[r.idx]
       IN IF ok /\ HasTool(c, toolUse.name)
          THEN Store(s, heap, chatHistory,
                     [r EXCEPT !.pc = "call", !.owner = c, !.toolCalls = @ + 1])
          ELSE IF ok /\ c < NumConns
               THEN Store(s, heap, chatHistory, [r EXCEPT !.connIdx = c + 1])
               ELSE StoreState(s, ToolFailed(ThisState(s), NoServiceError(toolUse.name)))
    /\ UNCHANGED <<extraction, openAI, connected, connectPc, attempt, connectResult,
                   modelCalls>>

\* findClientForTool: the listing of connection connIdx settles
FindStep(s, ok) ==
    /\ round[s].pc = "find"
    /\ ok => connected[round[s].connIdx]
    /\ LET r == round[s]
           c == r.connIdx
           toolUse == r.toolUseList[r.idx]
       IN IF ok /\ HasTool(c, toolUse.name)
          THEN Store(s, heap, chatHistory,
                     [r EXCEPT !.pc = "call", !.owner = c, !.toolCalls = @ + 1])
          ELSE IF c < NumConns
               THEN Store(s, heap, chatHistory, [r EXCEPT !.connIdx = c + 1])
               ELSE StoreState(s, ToolFailed(ThisState(s), NoServiceError(toolUse.name)))
    /\ UNCHANGED <<extraction, openAI, connected, connectPc, attempt, connectResult,
                   modelCalls>>

\* (mutant) the callback is not told of a result
CallToolResolvedSilent(s, res) ==
    /\ round[s].pc = "call"
    /\ LET r == round[s]
           toolName == r.toolUseList[r.idx].name
           st1 == Push(ThisState(s), ResultMessage(r.mode, toolName, res),
                       ResultMessage(OtherMode(r.mode), toolName, res))
       IN StoreState(s, [st1 EXCEPT !.r = Advance(@, r.idx + 1)])
    /\ UNCHANGED <<extraction, openAI, connected, connectPc, attempt, connectResult,
                   modelCalls>>

\* callTool resolves: the result message, in streaming its notification, then on
CallToolResolved(s, res) ==
    /\ round[s].pc = "call"
    /\ LET r == round[s]
           toolName == r.toolUseList[r.idx].name
           st1 == Push(ThisState(s), ResultMessage(r.mode, toolName, res),
                       ResultMessage(OtherMode(r.mode), toolName, res))
           info == Notification(ResultMessage(r.mode, toolName, res))
       IN StoreState(s, [st1 EXCEPT !.r = Advance(Emit(@, "notification", info),
                                                  r.idx + 1)])
    /\ UNCHANGED <<extraction, openAI, connected, connectPc, attempt, connectResult,
                   modelCalls>>

\* callTool rejects
CallToolRejected(s) ==
    /\ round[s].pc = "call"
    /\ StoreState(s, ToolFailed(ThisState(s), CallToolError))
    /\ UNCHANGED <<extraction, openAI, connected, connectPc, attempt, connectResult,
                   modelCalls>>

\* the caller's await resumes with the value or the error; the call's frame is gone
Resume(s) ==
    /\ round[s].pc \in Settled
    /\ Store(s, heap, chatHistory, IdleRound)
    /\ UNCHANGED <<extraction, openAI, connected, connectPc, attempt, connectResult, modelCalls>>

\* ------------------------------------------------------------ specification
\* A caller that awaits each call before it makes the next: one task (slot 1).
CallerIdle == connectPc = "idle" /\ \A s \in Slots : round[s].pc = "idle"
\* ... and that lets go of a history it was handed before its next call
CallerReady == CallerIdle /\ returned = <<>>

Next ==
    \/ CallerReady /\ Connect
    \/ \E c \in Conns, ok \in BOOLEAN : ConnectAttemptDone(c, ok)
    \/ ConnectSettle
    \/ ConnectResume
    \/ CallerReady /\ ClearChatHistory
    \/ CallerReady /\ GetChatHistory
    \/ Release
    \/ CallerReady /\ Cleanup
    \/ \E c \in Conns, ok \in BOOLEAN : CloseAttemptDone(c, ok)
    \/ CleanupSettle
    \/ CallerReady /\ \E usp \in UserSystemPrompts, q \in Queries, h \in BOOLEAN :
                        ProcessQuery(1, usp, q, h)
    \/ CallerReady /\ \E usp \in UserSystemPrompts, q \in Queries, h \in BOOLEAN :
                        ProcessQueryStream(1, usp, q, h)
    \/ \E ok \in [Conns -> BOOLEAN] : ListToolsDone(1, ok)
    \/ \E content \in Completions : ModelReply(1, content)
    \/ ModelFail(1)
    \/ \E text \in ResponseTexts : StreamOpen(1, text)
    \/ \E k \in 1..ChunkLen : StreamChunk(1, k)
    \/ StreamEnd(1)
    \/ \E ok \in BOOLEAN : FindStep(1, ok)
    \/ \E res \in ToolResults : CallToolResolved(1, res)
    \/ CallToolRejected(1)
    \/ Resume(1)

Spec == Init /\ [][Next]_vars

\* A caller that keeps the array getChatHistory handed it across its later
\* calls, and writes to it: to the fields of its first EditReach messages, and
\* once to the array itself.  The model answers without tool calls.
EditReach == 1
ArrayAsHanded == returned = chatHistory

NextKeeping ==
    \/ CallerIdle /\ Connect
    \/ \E c \in Conns, ok \in BOOLEAN : ConnectAttemptDone(c, ok)
    \/ ConnectSettle
    \/ ConnectResume
    \/ CallerIdle /\ ClearChatHistory
    \/ CallerIdle /\ GetChatHistory
    \/ CallerIdle /\ \E i \in 1..EditReach : CallerSetsContent(i)
    \/ CallerIdle /\ \E i \in 1..EditReach : CallerSetsRole(i)
    \/ CallerIdle /\ ArrayAsHanded /\ CallerPushes
    \/ CallerIdle /\ ArrayAsHanded /\ CallerShifts
    \/ CallerIdle /\ Release
    \/ CallerIdle /\ \E usp \in UserSystemPrompts, q \in Queries :
                        ProcessQuery(1, usp, q, TRUE)
    \/ \E ok \in [Conns -> BOOLEAN] : ListToolsDone(1, ok)
    \/ ModelReply(1, RPlain)
    \/ ModelFail(1)
    \/ Resume(1)

SpecKeeping == Init /\ [][NextKeeping]_vars

\* A caller of processQueryStream alone, on a completion stream that also
\* delivers chunks without content (a role-only first delta, a closing chunk),
\* up to MaxEmptyChunks of them in one model call.
NextStream ==
    \/ CallerReady /\ Connect
    \/ \E c \in Conns, ok \in BOOLEAN : ConnectAttemptDone(c, ok)
    \/ ConnectSettle
    \/ ConnectResume
    \/ CallerReady /\ \E usp \in UserSystemPrompts, q \in Queries, h \in BOOLEAN :
                        ProcessQueryStream(1, usp, q, h)
    \/ \E ok \in [Conns -> BOOLEAN] : ListToolsDone(1, ok)
    \/ ModelFail(1)
    \/ \E text \in ResponseTexts : StreamOpen(1, text)
    \/ \E k \in 0..ChunkLen : StreamChunk(1, k)
    \/ StreamEnd(1)
    \/ \E ok \in BOOLEAN : FindStep(1, ok)
    \/ \E res \in ToolResults : CallToolResolved(1, res)
    \/ CallToolRejected(1)
    \/ Resume(1)

SpecStream == Init /\ [][NextStream]_vars

\* Rounds without history on services whose callTool resolves with any of the
\* result shapes: a content array with a text, an empty one, a content that is
\* no array, no content.
NextResults ==
    \/ CallerReady /\ Connect
    \/ \E c \in Conns, ok \in BOOLEAN : ConnectAttemptDone(c, ok)
    \/ ConnectSettle
    \/ ConnectResume
    \/ CallerReady /\ \E usp \in UserSystemPrompts, q \in Queries :
                        ProcessQuery(1, usp, q, FALSE)
    \/ CallerReady /\ \E usp \in UserSystemPrompts, q \in Queries :
                        ProcessQueryStream(1, usp, q, FALSE)
    \/ \E ok \in [Conns -> BOOLEAN] : ListToolsDone(1, ok)
    \/ \E content \in {RPlain, RTwoCalls} : ModelReply(1, content)
    \/ \E text \in {RPlain, RTwoCalls} : StreamOpen(1, text)
    \/ \E k \in 1..ChunkLen : StreamChunk(1, k)
    \/ StreamEnd(1)
    \/ \E ok \in BOOLEAN : FindStep(1, ok)
    \/ \E res \in AllToolResults : CallToolResolved(1, res)
    \/ Resume(1)

SpecResults == Init /\ [][NextResults]_vars

\* Rounds in which every external call completes: a listing, a resolution, an
\* invocation and a chunk of a stream always settle, and so does a completion,
\* as long as the model answers at all (it answers MaxModelCalls times).
ExternalCallCompletes(s) ==
    \/ \E ok \in [Conns -> BOOLEAN] : ListToolsDone(s, ok)
    \/ \E content \in Completions : ModelReply(s, content)
    \/ \E text \in ResponseTexts : StreamOpen(s, text)
    \/ \E k \in 1..ChunkLen : StreamChunk(s, k)
    \/ StreamEnd(s)
    \/ \E ok \in BOOLEAN : FindStep(s, ok)
    \/ \E res \in ToolResults : CallToolResolved(s, res)
    \/ CallToolRejected(s)

NextLive ==
    \/ CallerReady /\ Connect
    \/ \E c \in Conns, ok \in BOOLEAN : ConnectAttemptDone(c, ok)
    \/ ConnectSettle
    \/ ConnectResume
    \/ CallerReady /\ \E usp \in UserSystemPrompts, q \in Queries :
                        ProcessQuery(1, usp, q, FALSE)
    \/ CallerReady /\ \E usp \in UserSystemPrompts, q \in Queries :
                        ProcessQueryStream(1, usp, q, FALSE)
    \/ ExternalCallCompletes(1)
    \/ ModelFail(1)
    \/ Resume(1)

\* task s awaits an external call that will complete: the state predicate
\* that ENABLED <<ExternalCallCompletes(s)>>_vars comes to
AwaitingExternal(s) ==
    \/ round[s].pc \in {"list", "stream", "find", "call"}
    \/ round[s].pc = "model" /\ modelCalls < MaxModelCalls

\* weak fairness of ExternalCallCompletes(1), its enabling condition written
\* out: an awaited external call does not stay pending for ever
ExternalCallsSettle ==
    \/ []<>(~AwaitingExternal(1))
    \/ []<><<ExternalCallCompletes(1)>>_vars

SpecLive == Init /\ [][NextLive]_vars /\ ExternalCallsSettle

\* A caller that does not await: two tasks run history rounds on the one
\* client, and clearChatHistory and cleanup are called while they are suspended.
Tasks == {1, 2}
\* each task asks its own question, so that the rounds can be told apart
TaskQuery(s) == IF s = 1 THEN <<"q1">> ELSE <<"q2">>
\* answers without a named request: the rounds suspend at listTools and at
\* the completion request only
ConcurrentCompletions == {RPlain, RNameless}
\* no server has been connected: every listing is empty
NextConcurrent ==
    \/ ClearChatHistory
    \/ Cleanup
    \/ \E c \in Conns, ok \in BOOLEAN : CloseAttemptDone(c, ok)
    \/ CleanupSettle
    \/ \E s \in Tasks, usp \in UserSystemPrompts :
          connectPc = "idle" /\ ProcessQuery(s, usp, TaskQuery(s), TRUE)
    \/ \E s \in Tasks : ListToolsDone(s, connected)
    \/ \E s \in Tasks, content \in ConcurrentCompletions : ModelReply(s, content)
    \/ \E s \in Tasks : Resume(s)

SpecConcurrent == Init /\ [][NextConcurrent]_vars

\* ---------------------------------------------------- extractToolUses alone
\* The texts extractToolUses is called with: up to MaxFragments fragments, each
\* a well-formed block, plain text, or tool-call syntax that is incomplete.
MaxFragments == 3
Fragments == {"B1", "B2", "T", "W", "OpenName", "Pair", "OpenPair", "NameOnly",
              "ArgsOnly", "ClosedTail"}
FragText(f) ==
    CASE f = "B1" -> <<TU, NM, "zz", NMEnd, AR, "{\"a\":1}", AREnd, TUEnd>>
      [] f = "B2" -> <<TU, "\n", NM, " ", "dup", NMEnd, " ", AR, " ", "bad", "\n",
                       AREnd, "\n", TUEnd>>
      [] f = "T" -> <<"hi">>
      [] f = "W" -> <<"\n">>
      [] f = "OpenName" -> <<TU, NM, "t1", NMEnd>>
      [] f = "Pair" -> <<NM, "t2", NMEnd, AR, "{}", AREnd>>
      [] f = "OpenPair" -> <<TU, NM, " ", "t3", NMEnd, AR, "bad", AREnd>>
      [] f = "NameOnly" -> <<NM, "t4", NMEnd>>
      [] f = "ArgsOnly" -> <<AR, "bad", AREnd>>
      [] f = "ClosedTail" -> <<NM, "t2", NMEnd, AR, "{}", AREnd, TUEnd>>

RECURSIVE InputText(_)
InputText(input) ==
    IF input = <<>> THEN <<>> ELSE FragText(Head(input)) \o InputText(Tail(input))

ExtractInputs == UNION {[1..n -> Fragments] : n \in 0..MaxFragments}

InitExtract ==
    /\ extraction \in {[input |-> in, toolUses |-> <<>>, done |-> FALSE] :
                          in \in ExtractInputs}
    /\ openAI = TRUE
    /\ connected = [c \in Conns |-> FALSE]
    /\ connectPc = "idle"
    /\ attempt = [c \in Conns |-> "none"]
    /\ connectResult = [status |-> "none", flags |-> <<>>]
    /\ chatHistory = <<>>
    /\ heap = <<>>
    /\ round = [s \in Slots |-> IdleRound]
    /\ modelCalls = 0
    /\ returned = <<>>

\* client.extractToolUses(text) returns
ExtractToolUsesCall ==
    /\ ~extraction.done
    /\ extraction' = [extraction EXCEPT
                         !.toolUses = ExtractToolUses(InputText(extraction.input)),
                         !.done = TRUE]
    /\ UNCHANGED <<openAI, connected, connectPc, attempt, connectResult, chatHistory,
                   heap, round, modelCalls, returned>>

NextExtract == ExtractToolUsesCall

SpecExtract == InitExtract /\ [][NextExtract]_vars

\* ------------------------------------------------------------------- claims
HistoryContents == Contents(heap, chatHistory)
WorkingContents(s) == Contents(heap, round[s].messages)
RoundRunning(s) == round[s].pc \notin {"idle", "returned", "thrown"}
Last(seq) == seq[Len(seq)]
TagTokens == {TU, TUEnd, NM, NMEnd, AR, AREnd}
IsPrefix(p, t) == Len(p) <= Len(t) /\ SubSeq(t, 1, Len(p)) = p

\* C1: a round returns only right after a response from which no tool call was
\* extracted, and returns exactly that response's text: in a returned round the
\* last message of the working list is the assistant message holding the
\* returned text, and nothing is extracted from it.
C1_ReturnsLastResponse ==
    \A s \in Slots :
        round[s].pc = "returned" =>
            /\ Len(round[s].messages) > 0
            /\ Last(WorkingContents(s)) =
                   Message("assistant", StringContent(round[s].result))
            /\ Len(ExtractToolUses(round[s].result)) = 0

\* a round that went on after a response holding only a nameless request, and
\* returned after its second response
C1_Witness ==
    \E s \in Slots :
        /\ round[s].pc = "returned"
        /\ round[s].calls = 2
        /\ \E i \in 1..Len(round[s].messages) :
              WorkingContents(s)[i] = Message("assistant", StringContent(RNameless))

\* C2 (as claimed): with useHistory, every step of a round leaves the persisted
\* history as getChatHistory reports it unchanged, except the step that returns,
\* which makes it the working list.
C2_HistoryFrozenUntilCommit ==
    [][\A s \in Slots :
          (RoundRunning(s) /\ round[s].useHistory) =>
              IF round'[s].pc = "returned"
              THEN HistoryContents' = Contents(heap', round'[s].messages)
              ELSE HistoryContents' = HistoryContents]_vars

\* a step of task s, and whether the call it belongs to runs without history
NonHistoryStep(s) ==
    /\ round'[s] # round[s]
    /\ IF round[s].pc = "idle" THEN ~round'[s].useHistory ELSE ~round[s].useHistory

\* C3: no step of a round run with useHistory = false changes the persisted
\* history, whether it returns or throws.
C3_NoHistoryRoundKeepsHistory ==
    [][\A s \in Slots : NonHistoryStep(s) => HistoryContents' = HistoryContents]_vars

\* a round without history has returned while an earlier round's history is kept
C3_Witness ==
    \E s \in Slots :
        /\ round[s].pc = "returned"
        /\ ~round[s].useHistory
        /\ Len(chatHistory) = 3
        /\ Len(round[s].messages) = 3

\* the step on which the first response of a round is complete, and its text
FirstResponseStep(s) ==
    /\ RoundRunning(s)
    /\ round[s].calls = 1
    /\ Len(round'[s].messages) = Len(round[s].messages) + 1
    /\ heap'[Last(round'[s].messages)].role = "assistant"
ResponseText(s) == heap'[Last(round'[s].messages)].content.text
NoToolSyntax(text) == \A i \in 1..Len(text) : text[i] \notin TagTokens

\* C4 (as claimed): a first response without tool-call syntax ends the round
\* after that one model call, its text is returned, and with useHistory the
\* history grows by exactly 2, on an empty history too.
C4_GrowsByTwoAlways ==
    [][\A s \in Slots :
          (FirstResponseStep(s) /\ NoToolSyntax(ResponseText(s))) =>
              /\ round'[s].pc = "returned"
              /\ round'[s].calls = 1
              /\ round'[s].result = ResponseText(s)
              /\ round[s].useHistory => Len(chatHistory') = Len(chatHistory) + 2]_vars

\* C4 (amended): ... the history grows by exactly 2 when it was not empty at the
\* start of the round, and by exactly 3 (system, user, assistant) when it was.
C4_GrowsByTwoOrThree ==
    [][\A s \in Slots :
          (FirstResponseStep(s) /\ NoToolSyntax(ResponseText(s))) =>
              /\ round'[s].pc = "returned"
              /\ round'[s].calls = 1
              /\ round'[s].result = ResponseText(s)
              /\ round[s].useHistory =>
                    Len(chatHistory') =
                        Len(chatHistory) + (IF Len(chatHistory) = 0 THEN 3 ELSE 2)]_vars

\* a second round with history has returned a plain text after one model call
C4_Witness ==
    \E s \in Slots :
        /\ round[s].pc = "returned"
        /\ round[s].useHistory
        /\ round[s].calls = 1
        /\ round[s].result = RPlain
        /\ Len(chatHistory) = 5

\* C5: with useHistory and a committed history, the working list a round starts
\* from is one system message holding this round's system prompt, then the
\* non-system messages of the history in order, then the new query.
C5_SecondRoundWorkingList ==
    [][\A s \in Slots :
          (round[s].pc = "list" /\ round'[s].pc = "model" /\ round[s].useHistory
              /\ Len(chatHistory) > 0) =>
              LET w == Contents(heap', round'[s].messages)
                  nonSystem(m) == m.role # "system"
              IN /\ w[1] = Message("system", StringContent(round'[s].systemPrompt))
                 /\ round'[s].systemPrompt =
                        BuildSystemPrompt(round[s].userSystemPrompt, round'[s].tools)
                 /\ Tail(w) = SelectSeq(HistoryContents, nonSystem)
                                \o <<Message("user", StringContent(round[s].query))>>]_vars

\* a second round starts from a three-message history, and lists no tool
\* although connection 1 is connected
C5_Witness ==
    \E s \in Slots :
        /\ round[s].pc = "model"
        /\ round[s].useHistory
        /\ round[s].calls = 1
        /\ Len(round[s].messages) = 4
        /\ round[s].tools = <<>>
        /\ connected[1]

\* C6 (as claimed): the working list equals the list the other variant builds
\* from the same history, query, listings, responses and tool outcomes.
C6_VariantsBuildSameList ==
    \A s \in Slots :
        round[s].pc \notin {"idle", "list", "thrown"} => WorkingContents(s) = round[s].twin

\* the steps on which the dispatch of the current request fails
ResolutionFails(s) ==
    /\ round[s].pc = "find"
    /\ round[s].connIdx = NumConns
    /\ \E ok \in BOOLEAN : FindStep(s, ok)
    /\ round'[s].pc # "call"
InvocationFails(s) == CallToolRejected(s)

\* C7: when the dispatch of a named request fails, one user message "The tool
\* call to X failed with error: ..." is appended, no callTool is issued for an
\* unresolved name, the next named request is dispatched, and after the last
\* one the model is called again: the round neither returns nor throws.
C7_ToolFailureIsRecoverable ==
    [][\A s \in Slots :
          (ResolutionFails(s) \/ InvocationFails(s)) =>
              LET r == round[s]
                  toolName == r.toolUseList[r.idx].name
                  next == NextNamed(r.toolUseList, r.idx + 1)
                  added == heap'[Last(round'[s].messages)]
              IN /\ Len(round'[s].messages) = Len(r.messages) + 1
                 /\ SubSeq(Contents(heap', round'[s].messages), 1, Len(r.messages))
                        = WorkingContents(s)
                 /\ added.role = "user"
                 /\ added.content.type = "string"
                 /\ IsPrefix(<<"The tool call to ">> \o toolName
                                \o <<" failed with error: ">>, added.content.text)
                 /\ ResolutionFails(s) => round'[s].toolCalls = r.toolCalls
                 /\ IF next # 0
                    THEN round'[s].pc = "find" /\ round'[s].idx = next
                    ELSE round'[s].pc = "model" /\ round'[s].calls = r.calls + 1]_vars

\* both requests of one response failed, one unresolved and one rejected, and
\* the model has been called again
C7_Witness ==
    \E s \in Slots :
        /\ round[s].pc = "model"
        /\ round[s].calls = 2
        /\ Len(round[s].messages) = 5
        /\ WorkingContents(s)[4] = ErrorMessage(<<"zz">>, NoServiceError(<<"zz">>))
        /\ WorkingContents(s)[5] = ErrorMessage(<<"dup">>, CallToolError)

\* C8: connect() attempts every connection, settles only when every attempt
\* has, rejects exactly when every attempt failed, and otherwise returns one
\* flag per connection in configuration order.
C8_ConnectSettlesOnAll ==
    /\ connectPc = "pending" => \A c \in Conns : attempt[c] # "none"
    /\ connectPc # "settled" => connectResult.status = "none"
    /\ connectPc = "settled" =>
          /\ \A c \in Conns : attempt[c] \in {"ok", "failed"}
          /\ connectResult.status \in {"resolved", "rejected"}
          /\ connectResult.status = "rejected" <=> \A c \in Conns : attempt[c] = "failed"
          /\ connectResult.status = "resolved" =>
                connectResult.flags = [c \in Conns |-> attempt[c] = "ok"]

\* connect() returned [false, true]
C8_Witness ==
    /\ connectPc = "settled"
    /\ attempt[1] = "failed"
    /\ attempt[2] = "ok"
    /\ connectResult = [status |-> "resolved", flags |-> <<FALSE, TRUE>>]

\* C9 (as claimed): while no connection is connected (connect() rejected, or was
\* never called) no round reaches a model call.
C9_NoModelCallWithoutConnection ==
    \A s \in Slots : (\A c \in Conns : ~connected[c]) => round[s].calls = 0

\* C10: when only some connections connected, connect() resolves, and the
\* catalog listTools returns afterwards holds tools of connected services only.
C10_CatalogOfConnectedOnly ==
    /\ (connectPc = "settled" /\ \E c \in Conns : attempt[c] = "ok")
          => connectResult.status = "resolved"
    /\ \A s \in Slots :
          \A i \in 1..Len(round[s].tools) :
              \E c \in Conns : connected[c] /\ round[s].tools[i].serviceSource = ServiceName(c)

\* after a connect() in which connection 2 failed, a round's catalog is the
\* tool list of connection 1
C10_Witness ==
    \E s \in Slots :
        /\ round[s].pc = "model"
        /\ connected[1] /\ ~connected[2]
        /\ round[s].tools = TaggedTools(1)

\* C11: on a client without completion credentials a processQuery or
\* processQueryStream call throws the configuration error on its first step:
\* no listing is requested, no model call is made, the history is unchanged.
C11_UnconfiguredThrowsAtOnce ==
    [][\A s \in Slots :
          ~openAI =>
              /\ round'[s].pc \in {"idle", "thrown"}
              /\ (round[s].pc = "idle" /\ round'[s].pc # "idle") =>
                    /\ round'[s].error = "ConfigurationError"
                    /\ round'[s].calls = 0
                    /\ round'[s].tools = <<>>
                    /\ modelCalls' = modelCalls
                    /\ HistoryContents' = HistoryContents]_vars

\* a streaming call on a client without credentials has thrown
C11_Witness ==
    \E s \in Slots :
        /\ ~openAI
        /\ round[s].pc = "thrown"
        /\ round[s].mode = "stream"
        /\ round[s].error = "ConfigurationError"

\* C12 (as claimed): a call throws only for missing credentials; a failed
\* listing, resolution, invocation or completion never makes the call reject.
C12_OnlyConfigurationErrorThrown ==
    \A s \in Slots : round[s].pc = "thrown" => round[s].error = "ConfigurationError"

ReturnedContents == Contents(heap, returned)

\* C13 (as claimed): getChatHistory returns the history's content; nothing the
\* caller does to the returned array or to a message in it changes the
\* persisted history, and no later step of the client changes the content of
\* an array already returned.
C13_ReturnedCopyIsDetached ==
    [][/\ GetChatHistory => ReturnedContents' = HistoryContents
       /\ CallerWrites => HistoryContents' = HistoryContents
       /\ ~(GetChatHistory \/ CallerWrites \/ Release) =>
              ReturnedContents' = ReturnedContents]_vars

SystemOnlyFirst(list) == \A i \in 1..Len(list) : list[i].role = "system" => i = 1

\* C14: in every reachable state the persisted history and every round's
\* working list hold at most one system message, and only at position 0.
C14_SystemOnlyFirst ==
    /\ SystemOnlyFirst(HistoryContents)
    /\ \A s \in Slots : SystemOnlyFirst(WorkingContents(s))

\* a second history round is under way on a history that starts with a
\* system message
C14_Witness ==
    \E s \in Slots :
        /\ RoundRunning(s)
        /\ Len(chatHistory) = 3
        /\ HistoryContents[1].role = "system"
        /\ Len(round[s].messages) >= 5
        /\ WorkingContents(s)[1].role = "system"

\* where connection c's tools start in the catalog: after the tools of the
\* connections before it whose listing succeeded
RECURSIVE Offset(_, _)
Offset(ok, c) ==
    IF c = 1 THEN 0
    ELSE Offset(ok, c - 1) + (IF ok[c - 1] THEN Len(ToolsOf(c - 1)) ELSE 0)

\* C15: listTools never rejects, and returns the tool lists of the connections
\* whose listing succeeded, in configuration order and each in its own order,
\* every tool tagged with its connection's name, nothing for a connection
\* whose listing failed, and nothing removed as a duplicate.
C15_CatalogIsConcatenation ==
    [][\A s \in Slots : \A ok \in [Conns -> BOOLEAN] :
          ListToolsDone(s, ok) =>
              LET tools == round'[s].tools
              IN /\ round'[s].pc = "model"
                 /\ Len(tools) = Offset(ok, NumConns + 1)
                 /\ \A c \in Conns : ok[c] =>
                       \A i \in 1..Len(ToolsOf(c)) :
                           tools[Offset(ok, c) + i] =
                               [name |-> ToolsOf(c)[i], serviceSource |-> ServiceName(c)]]_vars

\* a catalog in which tool "dup" appears twice, once for each of two services
C15_Witness ==
    \E s \in Slots :
        /\ round[s].pc = "model"
        /\ \E i, j \in 1..Len(round[s].tools) :
              /\ i < j
              /\ round[s].tools[i].name = <<"dup">>
              /\ round[s].tools[j].name = <<"dup">>
              /\ round[s].tools[i].serviceSource # round[s].tools[j].serviceSource

\* the request being dispatched
CurrentName(s) == round[s].toolUseList[round[s].idx].name

\* C16: the resolution of a request queries the connections in configuration
\* order from the first; a connection whose listing succeeds and holds the name
\* is taken at once (none after it is queried, callTool goes to it); one whose
\* listing fails or lacks the name is passed over for the next; when the last
\* one is passed over the request fails.
C16_FirstMatchInOrder ==
    [][\A s \in Slots :
          /\ (round'[s].pc = "find" /\ (round[s].pc # "find" \/ round'[s].idx # round[s].idx))
                => round'[s].connIdx = 1
          /\ \A ok \in BOOLEAN : FindStep(s, ok) =>
                LET c == round[s].connIdx
                IN IF ok /\ HasTool(c, CurrentName(s))
                   THEN /\ round'[s].pc = "call"
                        /\ round'[s].owner = c
                        /\ round'[s].idx = round[s].idx
                   ELSE IF c < NumConns
                        THEN /\ round'[s].pc = "find"
                             /\ round'[s].idx = round[s].idx
                             /\ round'[s].connIdx = c + 1
                             /\ round'[s].messages = round[s].messages
                        ELSE /\ round'[s].pc # "call"
                             /\ round'[s].toolCalls = round[s].toolCalls
                             /\ heap'[Last(round'[s].messages)] =
                                    ErrorMessage(CurrentName(s), NoServiceError(CurrentName(s)))
          /\ round[s].pc = "call" =>
                /\ round[s].owner = round[s].connIdx
                /\ HasTool(round[s].owner, CurrentName(s))
                /\ round'[s].pc # "find" \/ round'[s].idx > round[s].idx]_vars

\* tool "dup", offered by every service, is invoked on connection 2 because
\* the listing of connection 1 failed at dispatch
C16_Witness ==
    \E s \in Slots :
        /\ round[s].pc = "call"
        /\ CurrentName(s) = <<"dup">>
        /\ round[s].owner = 2
        /\ connected[1]

\* C17: without history, or on an empty history, the working list a round
\* starts from is exactly [system(this round's system prompt), user(query)],
\* two new messages, whatever earlier rounds appended.
C17_FreshPairWithoutHistory ==
    [][\A s \in Slots :
          (round[s].pc = "list" /\ round'[s].pc = "model"
              /\ (~round[s].useHistory \/ Len(chatHistory) = 0)) =>
              /\ round'[s].systemPrompt =
                     BuildSystemPrompt(round[s].userSystemPrompt, round'[s].tools)
              /\ Contents(heap', round'[s].messages) =
                     <<Message("system", StringContent(round'[s].systemPrompt)),
                       Message("user", StringContent(round[s].query))>>
              /\ \A i \in 1..Len(round'[s].messages) :
                     \A j \in 1..Len(chatHistory') : round'[s].messages[i] # chatHistory'[j]
              /\ HistoryContents' = HistoryContents]_vars

\* a round without history starts from two messages while the history of an
\* earlier round with a tool call holds more
C17_Witness ==
    \E s \in Slots :
        /\ round[s].pc = "model"
        /\ round[s].calls = 1
        /\ ~round[s].useHistory
        /\ Len(round[s].messages) = 2
        /\ Len(chatHistory) > 3

\* what the fragments hold, written out by hand: the well-formed blocks and
\* the request each stands for, ...
IsBlock(f) == f \in {"B1", "B2"}
BlockRequest(f) ==
    IF f = "B1"
    THEN [name |-> <<"zz">>, arguments |-> [json |-> TRUE, value |-> <<"object", "a", "1">>]]
    ELSE [name |-> <<"dup">>, arguments |-> [json |-> FALSE, value |-> <<"bad">>]]
HasOpener(f) == f \in {"B1", "B2", "OpenName", "OpenPair"}
BlocksOf(input) == {k \in 1..Len(input) : IsBlock(input[k])}

\* C18 (as claimed): for a text with exactly one well-formed block, whatever
\* else it holds, extractToolUses returns exactly the block's request.
C18_OneBlockAnywhere ==
    (extraction.done /\ Cardinality(BlocksOf(extraction.input)) = 1) =>
        \A k \in BlocksOf(extraction.input) :
            extraction.toolUses = <<BlockRequest(extraction.input[k])>>

\* C18 (amended): ... provided the block's <tool_use> is the only opening
\* tag of its kind in the text: the name is the block's, the arguments are the
\* parsed value of {"a":1}, or the trimmed text when it does not parse.
C18_OneBlockOnlyOpener ==
    (extraction.done /\ Cardinality(BlocksOf(extraction.input)) = 1) =>
        \A k \in BlocksOf(extraction.input) :
            (\A j \in 1..Len(extraction.input) : j # k => ~HasOpener(extraction.input[j])) =>
                extraction.toolUses = <<BlockRequest(extraction.input[k])>>

\* a block with irregular whitespace and unparseable arguments, after a name
\* span that belongs to no block, gave one request with the raw arguments
C18_Witness ==
    /\ extraction.done
    /\ extraction.input = <<"NameOnly", "B2">>
    /\ Len(extraction.toolUses) = 1
    /\ extraction.toolUses[1].name = <<"dup">>
    /\ ~extraction.toolUses[1].arguments.json

\* ... and the name spans and arguments spans, in document order
FragNames(f) ==
    CASE f = "B1" -> << <<"zz">> >>
      [] f = "B2" -> << <<"dup">> >>
      [] f = "OpenName" -> << <<"t1">> >>
      [] f \in {"Pair", "ClosedTail"} -> << <<"t2">> >>
      [] f = "OpenPair" -> << <<"t3">> >>
      [] f = "NameOnly" -> << <<"t4">> >>
      [] OTHER -> <<>>
FragArgs(f) ==
    CASE f = "B1" -> << [json |-> TRUE, value |-> <<"object", "a", "1">>] >>
      [] f \in {"Pair", "ClosedTail"} -> << [json |-> TRUE, value |-> <<"object">>] >>
      [] f \in {"B2", "OpenPair", "ArgsOnly"} -> << [json |-> FALSE, value |-> <<"bad">>] >>
      [] OTHER -> <<>>
RECURSIVE NameSpans(_)
NameSpans(input) ==
    IF input = <<>> THEN <<>> ELSE FragNames(Head(input)) \o NameSpans(Tail(input))
RECURSIVE ArgsSpans(_)
ArgsSpans(input) ==
    IF input = <<>> THEN <<>> ELSE FragArgs(Head(input)) \o ArgsSpans(Tail(input))

\* the result the counts of name spans and arguments spans decide: equal and
\* not zero, the i-th name paired with the i-th arguments; otherwise nothing
PairedByCount(input) ==
    LET names == NameSpans(input)
        args == ArgsSpans(input)
    IN IF Len(names) = Len(args) /\ Len(names) > 0
       THEN [i \in 1..Len(names) |-> [name |-> names[i], arguments |-> args[i]]]
       ELSE <<>>

\* C19 (as claimed): when the text holds no well-formed block, the result is
\* the one the counts decide.
C19_NoBlockPairsByCount ==
    (extraction.done /\ BlocksOf(extraction.input) = {}) =>
        extraction.toolUses = PairedByCount(extraction.input)

\* C19 (amended): when the strict pattern matches nothing in the text (it can
\* match across stray tags where there is no well-formed block), the result is
\* the one the counts decide.
C19_LenientPairsByCount ==
    (extraction.done /\ Pattern1Matches(InputText(extraction.input)) = <<>>) =>
        extraction.toolUses = PairedByCount(extraction.input)

\* two name/arguments pairs, the first behind an opening tag that is never
\* closed, gave two requests in document order
C19_Witness ==
    /\ extraction.done
    /\ extraction.input = <<"OpenPair", "Pair">>
    /\ Len(extraction.toolUses) = 2
    /\ extraction.toolUses[1].name = <<"t3">>
    /\ extraction.toolUses[2].name = <<"t2">>

\* the position of the last assistant message of a list; 0 if there is none
LastAssistant(msgs) ==
    LET a == {i \in 1..Len(msgs) : msgs[i].role = "assistant"}
    IN IF a = {} THEN 0 ELSE CHOOSE i \in a : \A j \in a : j <= i

\* msg is the result message or the failure message of a request for name
AnswersRequest(msg, name) ==
    /\ msg.role = "user"
    /\ \/ /\ msg.content.type = "parts"
          /\ msg.content.parts[1] = ResultLabel(name)
       \/ /\ msg.content.type = "string"
          /\ IsPrefix(<<"The tool call to ">> \o name \o <<" failed with error: ">>,
                      msg.content.text)

\* C20: within a round the requests extracted from the assistant's text are
\* dispatched one at a time in extraction order: the one request being resolved
\* or invoked has a name, and while it is in flight the working list holds,
\* after the assistant message, exactly one user message (result or failure)
\* for each named request before it, in extraction order, and none for a
\* nameless one; when the loop is over it holds one for every named request.
C20_SequentialDispatch ==
    \A s \in Slots :
        LET r == round[s]
            msgs == Contents(heap, r.messages)
            la == LastAssistant(msgs)
            inFlight == r.pc \in {"find", "call"}
        IN (inFlight \/ (r.pc \in {"model", "stream"} /\ r.calls > 1)) =>
             /\ la > 0
             /\ LET uses == ExtractToolUses(msgs[la].content.text)
                    upto == IF inFlight THEN r.idx - 1 ELSE Len(uses)
                    named == {i \in 1..upto : uses[i].name # <<>>}
                IN /\ inFlight => /\ r.toolUseList = uses
                                  /\ r.idx \in 1..Len(uses)
                                  /\ uses[r.idx].name # <<>>
                   /\ Len(msgs) = la + Cardinality(named)
                   /\ \A i \in named :
                         AnswersRequest(msgs[la + Cardinality({j \in named : j <= i})],
                                        uses[i].name)

\* both requests of one response have been answered, the failure for "zz"
\* before the result for "dup", and the next completion is about to be asked
C20_Witness ==
    \E s \in Slots :
        LET msgs == Contents(heap, round[s].messages)
            n == Len(msgs)
        IN /\ round[s].pc = "model"
           /\ round[s].calls = 2
           /\ n >= 3
           /\ msgs[n - 2].role = "assistant"
           /\ msgs[n - 2].content.text = RTwoCalls
           /\ msgs[n - 1] = ErrorMessage(<<"zz">>, NoServiceError(<<"zz">>))
           /\ msgs[n].content.type = "parts"
           /\ msgs[n].content.parts[1] = ResultLabel(<<"dup">>)
           /\ round[s].toolCalls = 1

\* the step on which a response of task s is complete
ResponseComplete(s) == (\E content \in Completions : ModelReply(s, content)) \/ StreamEnd(s)

\* C21: the step that completes a response appends exactly one message, the
\* assistant message holding that response's full text, whether or not tool
\* calls are extracted from it (so before any message made from it); every
\* other step of the round appends no assistant message; and no step of a
\* round removes, reorders or replaces a message of the working list.
C21_AssistantAppendedAlways ==
    [][\A s \in Slots :
          (RoundRunning(s) /\ round[s].pc # "list" /\ round'[s].pc \notin {"idle", "thrown"}) =>
              LET old == WorkingContents(s)
                  new == Contents(heap', round'[s].messages)
              IN /\ IsPrefix(old, new)
                 /\ \A content \in Completions : ModelReply(s, content) =>
                       new = Append(old, Message("assistant",
                                                 StringContent(ContentOrEmpty(content))))
                 /\ StreamEnd(s) =>
                       new = Append(old, Message("assistant",
                                   StringContent(round[s].currentAssistantMessage)))
                 /\ ~ResponseComplete(s) =>
                       \A i \in (Len(old) + 1)..Len(new) : new[i].role # "assistant"]_vars

\* a streaming round kept the response with two requests, then the two
\* failure messages, then its final response
C21_Witness ==
    \E s \in Slots :
        /\ round[s].pc = "returned"
        /\ round[s].mode = "stream"
        /\ Len(round[s].messages) = 6
        /\ WorkingContents(s)[3] = Message("assistant", StringContent(RTwoCalls))
        /\ WorkingContents(s)[4].role = "user"
        /\ WorkingContents(s)[5].role = "user"
        /\ WorkingContents(s)[6] = Message("assistant", StringContent(RPlain))

\* text p occurs in text t
Contains(t, p) == \E i \in 0..(Len(t) - Len(p)) : SubSeq(t, i + 1, i + Len(p)) = p

\* C22 (as claimed): in streaming the notification of every failed tool call is
\* appended to the error trail, and the string the round returns contains the
\* trail, so each failure notification of the round.
C22_ErrorTrailReturned ==
    [][\A s \in Slots :
          /\ (round[s].mode = "stream" /\ (ResolutionFails(s) \/ InvocationFails(s))) =>
                \E err \in {NoServiceError(CurrentName(s)), CallToolError} :
                    round'[s].fullResponse =
                        round[s].fullResponse
                            \o Notification(ErrorMessage(CurrentName(s), err))
          /\ (StreamEnd(s) /\ round'[s].pc = "returned") =>
                Contains(round'[s].result, round[s].fullResponse)]_vars

RECURSIVE ConcatTexts(_)
ConcatTexts(log) == IF log = <<>> THEN <<>> ELSE Head(log).text \o ConcatTexts(Tail(log))

\* the positions of the assistant messages of a list, in order
AssistantPositions(msgs) ==
    LET test(i) == msgs[i].role = "assistant"
    IN SelectSeq([i \in 1..Len(msgs) |-> i], test)

\* the responses of the round that are complete
Completed(r) == IF r.pc \in {"model", "stream"} THEN r.calls - 1 ELSE r.calls

\* the callback invocations of a streaming round so far: call by call; within
\* a call the fragments, whose texts add up to the assistant message of that
\* call, then one notification for each named request answered so far, in
\* extraction order, each rendering the message appended for that request
EmissionOrder(s) ==
    LET r == round[s]
        msgs == WorkingContents(s)
        log == r.emitted
        ap == AssistantPositions(msgs)
        c == Completed(r)
        base == Len(ap) - c
    IN /\ base >= 0
       /\ \A i \in 1..Len(log) : log[i].text # <<>> /\ log[i].call \in 1..r.calls
       /\ \A i, j \in 1..Len(log) :
             i < j => \/ log[i].call < log[j].call
                      \/ /\ log[i].call = log[j].call
                         /\ ~(log[i].kind = "notification" /\ log[j].kind = "fragment")
       /\ \A k \in 1..c :
             LET pos == ap[base + k]
                 text == msgs[pos].content.text
                 uses == ExtractToolUses(text)
                 upto == IF k = c /\ r.pc \in {"find", "call"} THEN r.idx - 1 ELSE Len(uses)
                 named == {i \in 1..upto : uses[i].name # <<>>}
                 notes == NotificationsOfCall(log, k)
             IN /\ ConcatTexts(FragmentsOfCall(log, k)) = text
                /\ Len(notes) = Cardinality(named)
                /\ \A i \in named :
                      LET n == Cardinality({j \in named : j <= i})
                      IN /\ notes[n].text = Notification(msgs[pos + n])
                         /\ AnswersRequest(msgs[pos + n], uses[i].name)
       /\ r.pc = "stream" =>
             /\ ConcatTexts(FragmentsOfCall(log, r.calls)) = r.currentAssistantMessage
             /\ NotificationsOfCall(log, r.calls) = <<>>
       /\ r.pc = "model" => \A i \in 1..Len(log) : log[i].call < r.calls

StreamingRound(s) ==
    round[s].mode = "stream" /\ round[s].pc \in {"model", "stream", "find", "call", "returned"}

\* C23 (as claimed): the callback is invoked once for every chunk the stream
\* delivers, with that chunk's text, and the invocations of a round are
\* ordered call by call as EmissionOrder says.
C23_CallbackPerChunk ==
    /\ [](\A s \in Slots : StreamingRound(s) => EmissionOrder(s))
    /\ [][\A s \in Slots : \A k \in 0..ChunkLen :
             StreamChunk(s, k) =>
                 round'[s].emitted =
                     Append(round[s].emitted,
                            [kind |-> "fragment", call |-> round[s].calls,
                             text |-> SubSeq(round[s].stream, 1, k)])]_vars

\* C23 (amended): the callback is invoked once for every chunk that has
\* content, with that content, and not for a chunk without content; the
\* invocations of a round are ordered call by call as EmissionOrder says.
C23_CallbackPerContentChunk ==
    /\ [](\A s \in Slots : StreamingRound(s) => EmissionOrder(s))
    /\ [][\A s \in Slots : \A k \in 0..ChunkLen :
             StreamChunk(s, k) =>
                 round'[s].emitted =
                     IF k = 0 THEN round[s].emitted
                     ELSE Append(round[s].emitted,
                                 [kind |-> "fragment", call |-> round[s].calls,
                                  text |-> SubSeq(round[s].stream, 1, k)])]_vars

\* the callback got the first response in three fragments, a failure
\* notification for "zz" and a result notification for "dup"; of the second
\* response the stream has delivered a chunk without content and one fragment
C23_Witness ==
    \E s \in Slots :
        LET log == round[s].emitted
        IN /\ round[s].pc = "stream"
           /\ round[s].calls = 2
           /\ round[s].delivered = 2
           /\ Len(log) = 6
           /\ \A i \in 1..3 : log[i].kind = "fragment" /\ log[i].call = 1
           /\ log[4].kind = "notification" /\ log[5].kind = "notification"
           /\ log[4].text =
                  Notification(ErrorMessage(<<"zz">>, NoServiceError(<<"zz">>)))
           /\ log[5].text = Notification(StreamResultMessage(<<"dup">>, ResText))
           /\ log[6] = [kind |-> "fragment", call |-> 2, text |-> RPlain]

\* what the claim takes the serialized part to be: the first element's text
\* when the content is a non-empty sequence, the raw result otherwise
SerializedAsClaimed(res) ==
    IF res.kind = "array" /\ Len(res.items) > 0 THEN StringifyText(res.items[1])
    ELSE res.raw

\* C24 (as claimed): a callTool that resolves appends one user message of two
\* text parts, the label naming the tool and the serialized result (in
\* processQuery followed by a blank line), the latter being the first element's
\* text for a non-empty content sequence and the raw result for a content that
\* is absent, not a sequence, or an empty sequence.
C24_ResultSerialization ==
    [][\A s \in Slots : \A res \in AllToolResults :
          CallToolResolved(s, res) =>
              LET added == heap'[Last(round'[s].messages)]
              IN /\ Len(round'[s].messages) = Len(round[s].messages) + 1
                 /\ added.role = "user"
                 /\ added.content.type = "parts"
                 /\ Len(added.content.parts) = 2
                 /\ added.content.parts[1] = ResultLabel(CurrentName(s))
                 /\ added.content.parts[2] \in
                        {SerializedAsClaimed(res), SerializedAsClaimed(res) \o <<"\n\n">>}]_vars

\* the model has answered as often as it does: the completion the round has
\* requested stays pending
ModelSilent(s) == round[s].pc = "model" /\ modelCalls = MaxModelCalls

\* C25: a round returns on exactly the steps that complete a response from
\* which no tool call is extracted; and, every external call completing, a
\* round under way goes on until it returns, throws, or is waiting for yet
\* another completion: nothing but a response without tool calls (or a
\* rejected completion) ends it, however many model calls it has made.
C25_ReturnsIffNoToolCalls ==
    /\ [][\A s \in Slots :
             /\ ResponseComplete(s) =>
                   (round'[s].pc = "returned" <=>
                       Len(ExtractToolUses(heap'[Last(round'[s].messages)].content.text)) = 0)
             /\ (round[s].pc # "returned" /\ round'[s].pc = "returned") =>
                   ResponseComplete(s)]_vars
    /\ [][\A s \in Slots : ExternalCallCompletes(s) => AwaitingExternal(s)]_vars
    /\ \A s \in Slots :
          RoundRunning(s) ~> (round[s].pc \in Settled \/ ModelSilent(s))

\* after MaxModelCalls responses that all held tool calls the round has not
\* returned and requests one more completion
C25_Witness ==
    \E s \in Slots :
        /\ ModelSilent(s)
        /\ round[s].calls = MaxModelCalls + 1
        /\ Len(AssistantPositions(WorkingContents(s))) = MaxModelCalls
        /\ \A i \in 1..Len(round[s].messages) :
              WorkingContents(s)[i].role = "assistant" =>
                  Len(ExtractToolUses(WorkingContents(s)[i].content.text)) > 0

\* C26: the first model call of every round is requested on the step on which
\* the listing of all connections made by this call settles; the catalog is
\* what those listings answer, the system prompt is built from it and heads
\* the working list; and on no later step of the round is the catalog, the
\* system prompt or the system message changed.
C26_CatalogFreshOncePerRound ==
    [][\A s \in Slots :
          /\ (round'[s].pc = "model" /\ round'[s].calls = 1 /\ round[s].pc # "model") =>
                /\ round[s].pc = "list"
                /\ round[s].tools = <<>>
                /\ \E ok \in [Conns -> BOOLEAN] :
                      /\ ListToolsDone(s, ok)
                      /\ round'[s].tools = FlatFrom(1, ok)
                /\ round'[s].systemPrompt =
                       BuildSystemPrompt(round[s].userSystemPrompt, round'[s].tools)
                /\ heap'[round'[s].messages[1]] =
                       Message("system", StringContent(round'[s].systemPrompt))
          /\ (RoundRunning(s) /\ round[s].pc # "list"
                 /\ round'[s].pc \notin {"idle", "thrown"}) =>
                /\ round'[s].tools = round[s].tools
                /\ round'[s].systemPrompt = round[s].systemPrompt
                /\ heap'[round'[s].messages[1]] = heap[round[s].messages[1]]
                /\ heap'[round'[s].messages[1]] =
                       Message("system", StringContent(round[s].systemPrompt))]_vars

\* a round is at its second model call with the catalog its own listing gave
\* (connection 2 alone answered), while the history an earlier round committed
\* is headed by a prompt built from another catalog
C26_Witness ==
    \E s \in Slots :
        /\ round[s].pc = "model"
        /\ round[s].calls = 2
        /\ round[s].tools = TaggedTools(2)
        /\ Len(chatHistory) > 0
        /\ HistoryContents[1].role = "system"
        /\ HistoryContents[1].content.text # round[s].systemPrompt

\* C27: cleanup() issues a close on every connection at once and settles when
\* every close has, whatever their outcomes: a close that fails leaves the
\* other closes alone and cleanup still ends normally, with the history empty
\* and the credentials dropped; from then on the client stays without
\* credentials and history, and every query call throws the configuration
\* error.
C27_CleanupDisablesClient ==
    /\ [](connectPc = "closing" => \A c \in Conns : attempt[c] # "none")
    /\ [](~openAI => chatHistory = <<>>)
    /\ [][/\ \A c \in Conns, ok \in BOOLEAN :
                CloseAttemptDone(c, ok) =>
                    /\ connectPc' = "closing"
                    /\ \A d \in Conns \ {c} :
                          attempt'[d] = attempt[d] /\ connected'[d] = connected[d]
          /\ (connectPc = "closing" /\ connectPc' # "closing") =>
                /\ CleanupSettle
                /\ \A c \in Conns : attempt[c] \in {"ok", "failed"}
                /\ \A c \in Conns : attempt[c] = "ok" => ~connected'[c]
                /\ connectPc' = "idle"
                /\ ~openAI'
                /\ chatHistory' = <<>>
          /\ ~openAI => ~openAI'
          /\ \A s \in Slots :
                (~openAI /\ round[s].pc = "idle" /\ round'[s].pc # "idle") =>
                    /\ round'[s].pc = "thrown"
                    /\ round'[s].error = "ConfigurationError"]_vars

\* after rounds that called the model, a cleanup in which the close of
\* connection 1 failed has ended: a later call has thrown the configuration
\* error
C27_Witness ==
    \E s \in Slots :
        /\ modelCalls > 0
        /\ ~openAI
        /\ connectPc = "idle"
        /\ connected[1] /\ ~connected[2]
        /\ chatHistory = <<>>
        /\ round[s].pc = "thrown"
        /\ round[s].error = "ConfigurationError"

\* ------------------------------------------------- rounds that overlap (C28)
\* the step in which the history round of task s returns
CommitStep(s) ==
    round[s].pc # "returned" /\ round'[s].pc = "returned" /\ round'[s].useHistory
\* the step in which a clear or the end of a cleanup empties the history
ClearStep == chatHistory # <<>> /\ chatHistory' = <<>>
\* task s is suspended at its completion request, its working list composed
Suspended(s) == round[s].pc = "model"
Mentions(contents, q) ==
    \E i \in 1..Len(contents) : contents[i] = Message("user", StringContent(q))

\* C28: the commit of a history round is an unconditional overwrite. Whatever
\* the persisted history holds when the round returns, it becomes that round's
\* working list (the list the round was suspended with, plus its last
\* response); and while a round is suspended, the commit of the other round, a
\* clear and a cleanup all go through and leave its working list as it was, so
\* that what they did to the history is not in what the round commits.
C28_CommitOverwrites ==
    [][\A s \in Tasks :
          /\ CommitStep(s) =>
                /\ chatHistory' = round'[s].messages
                /\ Len(WorkingContents(s)') = Len(WorkingContents(s)) + 1
                /\ SubSeq(WorkingContents(s)', 1, Len(WorkingContents(s)))
                      = WorkingContents(s)
          /\ (Suspended(s) /\ (ClearStep \/ \E t \in Tasks \ {s} : CommitStep(t))) =>
                /\ Suspended(s)'
                /\ WorkingContents(s)' = WorkingContents(s)]_vars

\* a lost update: both rounds have returned and a cleanup has ended, yet the
\* history is the working list of task 1, which holds nothing of task 2's
\* round: task 1 was suspended while task 2 committed and while the cleanup
\* ran, and committed last
C28_Witness ==
    /\ round[1].pc = "returned" /\ round[1].useHistory
    /\ round[2].pc = "returned" /\ round[2].useHistory
    /\ ~openAI
    /\ chatHistory # <<>>
    /\ chatHistory = round[1].messages
    /\ Mentions(HistoryContents, TaskQuery(1))
    /\ ~Mentions(HistoryContents, TaskQuery(2))

\* ------------------------------------------- shape of the history (C29)
NamedRequests(text) ==
    LET uses == ExtractToolUses(text)
    IN Cardinality({j \in 1..Len(uses) : uses[j].name # <<>>})
\* the messages after position i up to the next assistant message are user
\* messages, n of them
AnsweredBy(cs, i, n) ==
    /\ i + n + 1 <= Len(cs)
    /\ \A j \in (i + 1)..(i + n) : cs[j].role = "user"
    /\ cs[i + n + 1].role = "assistant"
HistoryShape(cs) ==
    \/ cs = <<>>
    \/ /\ Len(cs) >= 3
       /\ cs[1].role = "system"
       /\ \A i \in 2..Len(cs) : cs[i].role # "system"
       /\ cs[2].role = "user"
       /\ Last(cs).role = "assistant"
       /\ Len(ExtractToolUses(Last(cs).content.text)) = 0
       /\ \A i \in 1..Len(cs) :
             (cs[i].role = "assistant" /\ Len(ExtractToolUses(cs[i].content.text)) > 0)
                => AnsweredBy(cs, i, NamedRequests(cs[i].content.text))

\* C29: under a caller that awaits each call, the persisted history is empty
\* or is one system message, then a user message, and so on up to a last
\* assistant message from which no tool call is extracted; and every assistant
\* message in it from which tool calls are extracted is followed by exactly one
\* user message per named request, after which the next assistant message
\* comes.
\* (the history has the shape at the start and after every step that
\* changes what it holds)
C29_HistoryShape ==
    /\ HistoryShape(HistoryContents)
    /\ [][HistoryContents' # HistoryContents => HistoryShape(HistoryContents')]_vars

\* the history of a round whose first response held two named requests: both
\* were answered by a user message before the response that ended the round
C29_Witness ==
    /\ Len(HistoryContents) = 6
    /\ HistoryContents[3].role = "assistant"
    /\ NamedRequests(HistoryContents[3].content.text) = 2
    /\ HistoryContents[4].role = "user"
    /\ HistoryContents[5].role = "user"
    /\ HistoryContents[6].role = "assistant"
    /\ round[1].pc = "idle"
====
